---- MODULE Spec2Model ----
(***************************************************************************)
(* Dungeon generator of src/src/App.tsx: room placement by rejection       *)
(* sampling (placeRooms), L-shaped corridor carving (carveCorridor) and    *)
(* the Prim-style connection of room centres (connectRoomsWithCorridors),  *)
(* orchestrated by generateDungeon.                                        *)
(*                                                                         *)
(* One generation pass is a state machine: one action per iteration of     *)
(* the placement loop, one per iteration of the connection loop, and the   *)
(* two loop exits.  Every Math.random() draw is an input chosen with \E.   *)
(*                                                                         *)
(* The grid dimensions and the upper room sizes are scaled down from the   *)
(* reference configuration (64 x 64, rooms up to 12 x 10, 200 attempts) so *)
(* that the reachable states can be enumerated; every formula is written   *)
(* in terms of WIDTH, HEIGHT and the ROOM_ and cap definitions, never in   *)
(* terms of the scaled numbers.                                            *)
(***************************************************************************)
EXTENDS Integers, Sequences, FiniteSets

VARIABLES
    WIDTH,      \* const WIDTH: number of grid columns of this configuration
    HEIGHT,     \* const HEIGHT: number of grid rows of this configuration
    roomCount,  \* the argument of generateDungeon
    grid,       \* Grid = Tile[][], grid[y][x]; a row is a map from index to Tile
    rooms,      \* placeRooms' rooms array, in acceptance order
    attempts,   \* placeRooms' attempts counter
    centers,    \* connectRoomsWithCorridors' centers array
    connected,  \* its connected Set, as the sequence of its insertion order
    corridors,  \* history: the <<bestA, bestB>> of every carveCorridor call made
    pc,         \* position of the pass: "place", "connect", "done", "threw", "carve"
    ends,       \* carve harness: <<x1, y1, x2, y2>> of the corridor under test
    orders,     \* carve harness: the firstHorizontal draws of the calls made
    gridOnce    \* carve harness: the grid after the first carveCorridor call

vars == <<WIDTH, HEIGHT, roomCount, grid, rooms, attempts, centers, connected,
          corridors, pc, ends, orders, gridOnce>>

----------------------------------------------------------------------------
(* Program constants.                                                      *)
ROOM_W_MIN == 4
ROOM_H_MIN == 2
WALL == 0
FLOOR == 1

(* Bounds of the model.                                                    *)

\* Grid width of the main configuration (reference WIDTH is 64): two rooms of
\* minimum width fit side by side between the margins.
GridW == 14
\* Grid height of the main configuration (reference HEIGHT is 64): the smallest
\* height in which two rooms of minimum height fit one above the other
\* (margin 2, room, buffer row, room, margin 3).
GridH == 2 + ROOM_H_MIN + 1 + ROOM_H_MIN + 3
\* Largest room width drawn (reference ROOM_W_MAX is 12).
ROOM_W_MAX == 5
\* Largest room height drawn (reference ROOM_H_MAX is 10).
ROOM_H_MAX == 3
\* The attempt cap of the placement loop (the reference literal is 200).
ATTEMPT_CAP == 3
\* Largest ordinary roomCount argument tried.
MaxRoomCount == 3
\* A roomCount far larger than any grid of the model can hold.
HugeRoomCount == 1000
\* Grid width of the too-small configuration.
SmallW == 3
\* Grid dimensions of the corridor-carving harness.
CarveW == 4
CarveH == 3

Tiles == {WALL, FLOOR}

----------------------------------------------------------------------------
(* Pure functions of the program.                                          *)

\* A range one too wide: Math.floor(Math.random() * (max - min + 2)) + min.
randIntTooWide(min, max) ==
    IF min <= max THEN min .. max + 1 ELSE (max + 1) .. min

\* Math.floor(Math.random() * (max - min + 1)) + min.  Math.random() is in
\* [0, 1): for max >= min the result ranges over min..max; for max < min the
\* product lies in (max - min + 1, 0] and its floor over (max - min + 1)..0.
randInt(min, max) ==
    IF min <= max THEN min .. max ELSE (max + 1) .. min

\* A grid built with its dimensions swapped: w rows of h cells.
createGridTransposed(w, h, fill) ==
    [y \in 0 .. w - 1 |-> [x \in 0 .. h - 1 |-> fill]]

createGrid(w, h, fill) ==
    [y \in 0 .. h - 1 |-> [x \in 0 .. w - 1 |-> fill]]

\* A bounds check that forgets the lower edges.
inBoundsNoLower(x, y) ==
    x < WIDTH /\ y < HEIGHT

inBounds(x, y) ==
    x >= 0 /\ y >= 0 /\ x < WIDTH /\ y < HEIGHT

\* An overlap test without the one-cell buffer.
roomsOverlapNoBuffer(a, b) ==
    ~ (a.x + a.w <= b.x \/ b.x + b.w <= a.x
       \/ a.y + a.h <= b.y \/ b.y + b.h <= a.y)

roomsOverlap(a, b) ==
    ~ (a.x + a.w + 1 <= b.x \/ b.x + b.w + 1 <= a.x
       \/ a.y + a.h + 1 <= b.y \/ b.y + b.h + 1 <= a.y)

\* An overlap test written with rooms.every: true of the empty list.
someOverlapEvery(rs, candidate) ==
    \A i \in 1 .. Len(rs) : roomsOverlap(rs[i], candidate)

\* rooms.some((r) => roomsOverlap(r, candidate))
someOverlap(rs, candidate) ==
    \E i \in 1 .. Len(rs) : roomsOverlap(rs[i], candidate)

\* The rows the nested loop of placeRooms writes before grid[yy] is undefined
\* (rows are visited in ascending order; the first missing row throws).
rowsWritten(g, r) ==
    IF r.y \in DOMAIN g
      THEN {yy \in r.y .. r.y + r.h - 1 : \A y2 \in r.y .. yy : y2 \in DOMAIN g}
      ELSE {}

\* A room carve whose inner loop runs to xx <= x + w.
carveRoomInclusive(g, r) ==
    [yy \in DOMAIN g |->
        IF yy \in r.y .. r.y + r.h - 1
          THEN [xx \in DOMAIN g[yy] \cup (r.x .. r.x + r.w) |->
                   IF xx \in r.x .. r.x + r.w THEN FLOOR ELSE g[yy][xx]]
          ELSE g[yy]]

\* for yy, for xx: grid[yy][xx] = FLOOR.  A store at an index a row does not
\* have adds that index to the row (a JavaScript array accepts it).
carveRoom(g, r) ==
    [yy \in DOMAIN g |->
        IF yy \in rowsWritten(g, r)
          THEN [xx \in DOMAIN g[yy] \cup (r.x .. r.x + r.w - 1) |->
                   IF xx \in r.x .. r.x + r.w - 1 THEN FLOOR ELSE g[yy][xx]]
          ELSE g[yy]]

\* grid[yy] is undefined for some row of the room: the store throws TypeError.
carveRoomThrows(g, r) ==
    rowsWritten(g, r) # r.y .. r.y + r.h - 1

\* A horizontal run that flips each tile instead of setting it to FLOOR.
carveLineHToggle(g, x1, x2, y) ==
    LET lo == IF x1 <= x2 THEN x1 ELSE x2
        hi == IF x1 <= x2 THEN x2 ELSE x1
    IN  [yy \in DOMAIN g |->
            [xx \in DOMAIN g[yy] |->
                IF yy = y /\ xx \in lo .. hi /\ inBounds(xx, yy)
                  THEN (IF g[yy][xx] = FLOOR THEN WALL ELSE FLOOR) ELSE g[yy][xx]]]

\* The columns of row y at which carveLineH stores: those passing the bounds check.
lineHStores(x1, x2, y) ==
    LET lo == IF x1 <= x2 THEN x1 ELSE x2
        hi == IF x1 <= x2 THEN x2 ELSE x1
    IN  {xx \in lo .. hi : inBounds(xx, y)}

\* grid[y] is undefined at a store of the run: TypeError.
carveLineHThrows(g, x1, x2, y) ==
    lineHStores(x1, x2, y) # {} /\ y \notin DOMAIN g

\* for x in lo..hi: if (inBounds(x, y)) grid[y][x] = FLOOR.  A store at an index
\* the row does not have adds it; with no row y the first store throws.
carveLineH(g, x1, x2, y) ==
    LET st == lineHStores(x1, x2, y)
    IN  IF y \notin DOMAIN g THEN g
        ELSE [yy \in DOMAIN g |->
                IF yy = y
                  THEN [xx \in DOMAIN g[yy] \cup st |->
                           IF xx \in st THEN FLOOR ELSE g[yy][xx]]
                  ELSE g[yy]]

\* The rows of column x at which carveLineV stores: those passing the bounds check.
lineVStores(y1, y2, x) ==
    LET lo == IF y1 <= y2 THEN y1 ELSE y2
        hi == IF y1 <= y2 THEN y2 ELSE y1
    IN  {yy \in lo .. hi : inBounds(x, yy)}

\* grid[y] is undefined at a store of the run: TypeError.
carveLineVThrows(g, y1, y2, x) ==
    \E yy \in lineVStores(y1, y2, x) : yy \notin DOMAIN g

\* A vertical run that stops one cell short of its far end (y < hi).
carveLineVShort(g, y1, y2, x) ==
    LET lo == IF y1 <= y2 THEN y1 ELSE y2
        hi == IF y1 <= y2 THEN y2 ELSE y1
    IN  [yy \in DOMAIN g |->
            IF yy \in lo .. hi - 1 /\ inBounds(x, yy)
              THEN [xx \in DOMAIN g[yy] \cup {x} |->
                       IF xx = x THEN FLOOR ELSE g[yy][xx]]
              ELSE g[yy]]

\* for y in lo..hi: if (inBounds(x, y)) grid[y][x] = FLOOR.  Rows are visited in
\* ascending order; the stores before the first missing row are made.
carveLineV(g, y1, y2, x) ==
    LET st == lineVStores(y1, y2, x)
        written == {yy \in st : \A y0 \in st : y0 <= yy => y0 \in DOMAIN g}
    IN  [yy \in DOMAIN g |->
            IF yy \in written
              THEN [xx \in DOMAIN g[yy] \cup {x} |->
                       IF xx = x THEN FLOOR ELSE g[yy][xx]]
              ELSE g[yy]]

\* A corridor whose second run starts from the wrong end of the first one.
carveCorridorWrongCorner(g, x1, y1, x2, y2, firstHorizontal) ==
    IF firstHorizontal
      THEN carveLineV(carveLineH(g, x1, x2, y1), y1, y2, x1)
      ELSE carveLineH(carveLineV(g, y1, y2, x1), x1, x2, y1)

\* A corridor that carves its horizontal run only.
carveCorridorNoVertical(g, x1, y1, x2, y2, firstHorizontal) ==
    IF firstHorizontal
      THEN carveLineH(g, x1, x2, y1)
      ELSE carveLineH(g, x1, x2, y2)

\* The second run works on the grid the first run left (h is that grid, computed
\* once); it is not reached when the first one throws.
carveCorridor(g, x1, y1, x2, y2, firstHorizontal) ==
    IF firstHorizontal
      THEN IF carveLineHThrows(g, x1, x2, y1)
             THEN carveLineH(g, x1, x2, y1)
             ELSE CHOOSE out \in {carveLineV(h, y1, y2, x2) :
                                    h \in {carveLineH(g, x1, x2, y1)}} : TRUE
      ELSE IF carveLineVThrows(g, y1, y2, x1)
             THEN carveLineV(g, y1, y2, x1)
             ELSE CHOOSE out \in {carveLineH(h, x1, x2, y2) :
                                    h \in {carveLineV(g, y1, y2, x1)}} : TRUE

\* Some store of the call finds grid[y] undefined.
carveCorridorThrows(g, x1, y1, x2, y2, firstHorizontal) ==
    IF firstHorizontal
      THEN \/ carveLineHThrows(g, x1, x2, y1)
           \/ \E h \in {carveLineH(g, x1, x2, y1)} : carveLineVThrows(h, y1, y2, x2)
      ELSE \/ carveLineVThrows(g, y1, y2, x1)
           \/ \E h \in {carveLineV(g, y1, y2, x1)} : carveLineHThrows(h, x1, x2, y2)

\* A centre taken at the far corner of the room, one past its last cell.
centerOfFarCorner(r) ==
    [x |-> r.x + r.w, y |-> r.y + r.h]

\* Math.floor(r.x + r.w / 2), Math.floor(r.y + r.h / 2)
centerOf(r) ==
    [x |-> (2 * r.x + r.w) \div 2, y |-> (2 * r.y + r.h) \div 2]

roomCenters(rs) ==
    [i \in 1 .. Len(rs) |-> centerOf(rs[i])]

abs(n) == IF n < 0 THEN 0 - n ELSE n

\* Manhattan distance between the centres of rooms a and b (0-based indices).
dist(cs, a, b) ==
    abs(cs[a + 1].x - cs[b + 1].x) + abs(cs[a + 1].y - cs[b + 1].y)

\* A membership test that never finds the room.
hasNever(conn, b) == FALSE

has(conn, b) == \E i \in 1 .. Len(conn) : conn[i] = b

\* bestA = -1, bestB = -1, bestDist = Infinity
noBest == [a |-> -1, b |-> -1, d |-> 0, inf |-> TRUE]

\* A scan that takes a pair of equal distance too (d <= bestDist): last found wins.
RECURSIVE scanPairsLastWins(_, _, _, _, _)
scanPairsLastWins(cs, conn, i, b, best) ==
    IF i > Len(conn) THEN best
    ELSE IF b >= Len(cs) THEN scanPairsLastWins(cs, conn, i + 1, 0, best)
    ELSE IF has(conn, b) THEN scanPairsLastWins(cs, conn, i, b + 1, best)
    ELSE LET d == dist(cs, conn[i], b)
         IN  IF best.inf \/ d <= best.d
               THEN scanPairsLastWins(cs, conn, i, b + 1,
                                      [a |-> conn[i], b |-> b, d |-> d, inf |-> FALSE])
               ELSE scanPairsLastWins(cs, conn, i, b + 1, best)

\* The two nested loops of one connection iteration: a over the connected set in
\* insertion order (position i), b ascending from 0; a strictly smaller distance
\* replaces the best so far.
RECURSIVE scanPairs(_, _, _, _, _)
scanPairs(cs, conn, i, b, best) ==
    IF i > Len(conn) THEN best
    ELSE IF b >= Len(cs) THEN scanPairs(cs, conn, i + 1, 0, best)
    ELSE IF has(conn, b) THEN scanPairs(cs, conn, i, b + 1, best)
    ELSE LET d == dist(cs, conn[i], b)
         IN  IF best.inf \/ d < best.d
               THEN scanPairs(cs, conn, i, b + 1,
                              [a |-> conn[i], b |-> b, d |-> d, inf |-> FALSE])
               ELSE scanPairs(cs, conn, i, b + 1, best)

bestPair(cs, conn) == scanPairs(cs, conn, 1, 0, noBest)

\* A loop condition that forgets the attempt cap.
loopConditionNoCap(n, count, att) ==
    n < count

\* A loop condition that runs once more than asked.
loopConditionInclusive(n, count, att) ==
    n <= count /\ att < ATTEMPT_CAP

\* A loop condition joined with || instead of &&.
loopConditionOr(n, count, att) ==
    n < count \/ att < ATTEMPT_CAP

\* rooms.length < roomCount && attempts < 200
loopCondition(n, count, att) ==
    n < count /\ att < ATTEMPT_CAP

----------------------------------------------------------------------------
(* generateDungeon(roomCount): the initial state is the state after        *)
(* createGrid(WIDTH, HEIGHT, WALL), on entry to placeRooms.                *)

RoomCounts == (-1 .. MaxRoomCount) \cup {HugeRoomCount}

InitPass(w, h) ==
    /\ WIDTH = w
    /\ HEIGHT = h
    /\ roomCount \in RoomCounts
    /\ grid = createGrid(w, h, WALL)
    /\ rooms = <<>>
    /\ attempts = 0
    /\ centers = <<>>
    /\ connected = <<>>
    /\ corridors = <<>>
    /\ pc = "place"
    /\ ends = <<>>
    /\ orders = <<>>
    /\ gridOnce = <<>>

Init == InitPass(GridW, GridH)

\* One iteration of the while loop of placeRooms.
PlaceAttempt ==
    /\ pc = "place"
    /\ loopCondition(Len(rooms), roomCount, attempts)
    /\ \E w \in randInt(ROOM_W_MIN, ROOM_W_MAX), h \in randInt(ROOM_H_MIN, ROOM_H_MAX) :
         \E x \in randInt(2, WIDTH - w - 3), y \in randInt(2, HEIGHT - h - 3) :
            LET candidate == [x |-> x, y |-> y, w |-> w, h |-> h]
            IN  /\ attempts' = attempts + 1
                /\ IF someOverlap(rooms, candidate)
                     THEN UNCHANGED <<grid, rooms, pc>>
                     ELSE /\ grid' = carveRoom(grid, candidate)
                          /\ IF carveRoomThrows(grid, candidate)
                               THEN pc' = "threw" /\ UNCHANGED rooms
                               ELSE rooms' = Append(rooms, candidate) /\ UNCHANGED pc
    /\ UNCHANGED <<WIDTH, HEIGHT, roomCount, centers, connected, corridors,
                   ends, orders, gridOnce>>

\* The loop condition of placeRooms fails: it returns rooms, and
\* connectRoomsWithCorridors starts (empty list: immediate return; otherwise the
\* centres are computed and the connected set is {0}).
PlaceReturn ==
    /\ pc = "place"
    /\ ~ loopCondition(Len(rooms), roomCount, attempts)
    /\ IF Len(rooms) = 0
         THEN pc' = "done" /\ UNCHANGED <<centers, connected>>
         ELSE /\ centers' = roomCenters(rooms)
              /\ connected' = <<0>>
              /\ pc' = "connect"
    /\ UNCHANGED <<WIDTH, HEIGHT, roomCount, grid, rooms, attempts, corridors,
                   ends, orders, gridOnce>>

\* An iteration that carves the corridor but forgets connected.add(bestB).
ConnectStepNoAdd ==
    /\ pc = "connect"
    /\ Len(connected) < Len(centers)
    /\ \E firstHorizontal \in BOOLEAN, best \in {bestPair(centers, connected)} :
             /\ best.a # -1 /\ best.b # -1
             /\ grid' = carveCorridor(grid, centers[best.a + 1].x, centers[best.a + 1].y,
                                      centers[best.b + 1].x, centers[best.b + 1].y,
                                      firstHorizontal)
             /\ corridors' = Append(corridors, <<best.a, best.b>>)
    /\ UNCHANGED <<WIDTH, HEIGHT, roomCount, rooms, attempts, centers, connected, pc,
                   ends, orders, gridOnce>>

\* One iteration of the while loop of connectRoomsWithCorridors.
ConnectStep ==
    /\ pc = "connect"
    /\ Len(connected) < Len(centers)
    /\ \E firstHorizontal \in BOOLEAN, best \in {bestPair(centers, connected)} :
             IF best.a # -1 /\ best.b # -1
               THEN /\ grid' = carveCorridor(grid, centers[best.a + 1].x, centers[best.a + 1].y,
                                             centers[best.b + 1].x, centers[best.b + 1].y,
                                             firstHorizontal)
                    /\ corridors' = Append(corridors, <<best.a, best.b>>)
                    /\ IF carveCorridorThrows(grid, centers[best.a + 1].x, centers[best.a + 1].y,
                                              centers[best.b + 1].x, centers[best.b + 1].y,
                                              firstHorizontal)
                         THEN pc' = "threw" /\ UNCHANGED connected
                         ELSE connected' = Append(connected, best.b) /\ UNCHANGED pc
               ELSE /\ pc' = "done"
                    /\ UNCHANGED <<grid, connected, corridors>>
    /\ UNCHANGED <<WIDTH, HEIGHT, roomCount, rooms, attempts, centers,
                   ends, orders, gridOnce>>

\* The connection loop ends; generateDungeon returns {grid, rooms}.
ConnectReturn ==
    /\ pc = "connect"
    /\ ~ (Len(connected) < Len(centers))
    /\ pc' = "done"
    /\ UNCHANGED <<WIDTH, HEIGHT, roomCount, grid, rooms, attempts, centers,
                   connected, corridors, ends, orders, gridOnce>>

Next == PlaceAttempt \/ PlaceReturn \/ ConnectStep \/ ConnectReturn

Spec == Init /\ [][Next]_vars

\* generateDungeon is one synchronous call: while a loop iteration or a return is
\* possible, the next one is taken.
FairSpec == Init /\ [][Next]_vars /\ WF_vars(Next)

----------------------------------------------------------------------------
(* The same pass on a grid too narrow for the smallest room: WIDTH is      *)
(* SmallW, so WIDTH - w - 3 < 2 for every room width w.                    *)

InitSmall == InitPass(SmallW, GridH)

SmallSpec == InitSmall /\ [][Next]_vars

----------------------------------------------------------------------------
(* carveCorridor called twice with the same endpoints on the same grid.    *)
(* The grids tried are the all-WALL grid and the grids with one FLOOR      *)
(* cell; the endpoints range over the grid and one cell beyond each edge.  *)

CarveGrids(w, h) ==
    {createGrid(w, h, WALL)} \cup
    {[y \in 0 .. h - 1 |-> [x \in 0 .. w - 1 |->
          IF x = fx /\ y = fy THEN FLOOR ELSE WALL]] :
       fx \in 0 .. w - 1, fy \in 0 .. h - 1}

InitCarve ==
    /\ WIDTH = CarveW
    /\ HEIGHT = CarveH
    /\ roomCount = 0
    /\ grid \in CarveGrids(CarveW, CarveH)
    /\ rooms = <<>>
    /\ attempts = 0
    /\ centers = <<>>
    /\ connected = <<>>
    /\ corridors = <<>>
    /\ pc = "carve"
    /\ ends \in (-1 .. CarveW) \X (-1 .. CarveH) \X (-1 .. CarveW) \X (-1 .. CarveH)
    /\ orders = <<>>
    /\ gridOnce = <<>>

\* One call carveCorridor(grid, x1, y1, x2, y2); the harness makes two.
CarveCall ==
    /\ pc = "carve"
    /\ Len(orders) < 2
    /\ \E firstHorizontal \in BOOLEAN :
         /\ grid' = carveCorridor(grid, ends[1], ends[2], ends[3], ends[4], firstHorizontal)
         /\ orders' = Append(orders, firstHorizontal)
         /\ pc' = IF carveCorridorThrows(grid, ends[1], ends[2], ends[3], ends[4],
                                         firstHorizontal)
                    THEN "threw" ELSE pc
    /\ gridOnce' = IF Len(orders) = 0 THEN grid' ELSE gridOnce
    /\ UNCHANGED <<WIDTH, HEIGHT, roomCount, rooms, attempts, centers, connected,
                   corridors, ends>>

NextCarve == CarveCall

CarveSpec == InitCarve /\ [][NextCarve]_vars

----------------------------------------------------------------------------
(* Vocabulary of the properties.                                           *)

\* The cells [x, x+w) x [y, y+h) of a room, as <<x, y>> pairs.
Footprint(r) ==
    {<<x, y>> : x \in r.x .. r.x + r.w - 1, y \in r.y .. r.y + r.h - 1}

\* The cell <<x, y>> exists in grid g and holds FLOOR.
IsFloor(g, c) ==
    c[2] \in DOMAIN g /\ c[1] \in DOMAIN g[c[2]] /\ g[c[2]][c[1]] = FLOOR

Neighbours(c) ==
    {<<c[1] - 1, c[2]>>, <<c[1] + 1, c[2]>>, <<c[1], c[2] - 1>>, <<c[1], c[2] + 1>>}

\* Flood fill over orthogonally adjacent FLOOR cells.
RECURSIVE Flood(_, _, _)
Flood(g, seen, frontier) ==
    IF frontier = {} THEN seen
    ELSE LET new == {n \in UNION {Neighbours(c) : c \in frontier} :
                        IsFloor(g, n) /\ n \notin seen}
         IN  Flood(g, seen \cup new, new)

\* The FLOOR cells reachable from cell c (empty when c is not FLOOR).
ReachableFrom(g, c) ==
    IF IsFloor(g, c) THEN Flood(g, {c}, {c}) ELSE {}

\* The grid still has exactly HEIGHT rows of exactly WIDTH cells.
ShapeKept ==
    /\ DOMAIN grid = 0 .. HEIGHT - 1
    /\ \A y \in DOMAIN grid : DOMAIN grid[y] = 0 .. WIDTH - 1

AllWall ==
    \A y \in DOMAIN grid : \A x \in DOMAIN grid[y] : grid[y][x] = WALL

\* generateDungeon has returned {grid, rooms}.
Returned == pc = "done"

----------------------------------------------------------------------------
(* C1 - connectivity.  When generateDungeon has returned a non-empty room  *)
(* list, the flood fill over FLOOR cells started at the centre of rooms[0] *)
(* reaches a cell of every room's footprint, whatever was drawn.           *)
C1_Connectivity ==
    (Returned /\ Len(rooms) >= 1) =>
        LET c0 == centerOf(rooms[1])
            reach == ReachableFrom(grid, <<c0.x, c0.y>>)
        IN  \A i \in 1 .. Len(rooms) : Footprint(rooms[i]) \cap reach # {}

\* Three rooms returned, one corridor joining centres that differ in x and in y.
C1_Witness ==
    /\ Returned
    /\ Len(rooms) >= 3
    /\ \E k \in 1 .. Len(corridors) :
          LET a == centers[corridors[k][1] + 1]
              b == centers[corridors[k][2] + 1]
          IN  a.x # b.x /\ a.y # b.y

(* C2 - no overlap.  In every state, any two distinct accepted rooms are   *)
(* separated by the one-cell buffer on some axis; and while placeRooms     *)
(* runs, every cell orthogonally adjacent to a room's footprint is WALL.   *)
C2_NoOverlap ==
    /\ \A i, j \in 1 .. Len(rooms) :
          i # j =>
             LET a == rooms[i]
                 b == rooms[j]
             IN  \/ a.x + a.w + 1 <= b.x
                 \/ b.x + b.w + 1 <= a.x
                 \/ a.y + a.h + 1 <= b.y
                 \/ b.y + b.h + 1 <= a.y
    /\ pc = "place" =>
          \A i \in 1 .. Len(rooms) :
             \A c \in Footprint(rooms[i]) :
                \A n \in Neighbours(c) :
                   n \notin Footprint(rooms[i]) => ~ IsFloor(grid, n)

\* During placement, two accepted rooms exactly one buffer column apart.
C2_Witness ==
    /\ pc = "place"
    /\ \E i, j \in 1 .. Len(rooms) :
          /\ rooms[i].x + rooms[i].w + 1 = rooms[j].x
          /\ rooms[i].y = rooms[j].y

(* C3 - in bounds.  Every accepted room has x >= 2, y >= 2,                *)
(* x + w <= WIDTH - 3, y + h <= HEIGHT - 3, and its width and height lie   *)
(* in the configured ranges.                                               *)
C3_InBounds ==
    \A i \in 1 .. Len(rooms) :
       LET r == rooms[i]
       IN  /\ r.x >= 2 /\ r.y >= 2
           /\ r.x + r.w <= WIDTH - 3
           /\ r.y + r.h <= HEIGHT - 3
           /\ ROOM_W_MIN <= r.w /\ r.w <= ROOM_W_MAX
           /\ ROOM_H_MIN <= r.h /\ r.h <= ROOM_H_MAX

\* A largest room accepted flush against the far margins.
C3_Witness ==
    \E i \in 1 .. Len(rooms) :
       /\ rooms[i].w = ROOM_W_MAX /\ rooms[i].h = ROOM_H_MAX
       /\ rooms[i].x + rooms[i].w = WIDTH - 3
       /\ rooms[i].y + rooms[i].h = HEIGHT - 3

(* C4 - spanning tree.  Every carveCorridor call joins a room already in   *)
(* the connected set (which starts as {0}) to a room not yet in it, the    *)
(* connected set is 0 followed by the rooms joined, and on return exactly  *)
(* rooms.length - 1 calls were made.                                       *)
C4_SpanningTree ==
    (pc \in {"connect", "done"} /\ Len(rooms) >= 1) =>
        /\ \A k \in 1 .. Len(corridors) :
              LET before == {0} \cup {corridors[j][2] : j \in 1 .. k - 1}
              IN  /\ corridors[k][1] \in before
                  /\ corridors[k][2] \notin before
                  /\ corridors[k][2] \in 0 .. Len(rooms) - 1
        /\ Len(connected) = Len(corridors) + 1
        /\ connected[1] = 0
        /\ \A k \in 1 .. Len(corridors) : connected[k + 1] = corridors[k][2]
        /\ Returned => Len(corridors) = Len(rooms) - 1

\* Three rooms joined by a chain: the second corridor starts at a room other than 0.
C4_Witness ==
    /\ Returned
    /\ Len(rooms) >= 3
    /\ \E k \in 1 .. Len(corridors) : corridors[k][1] # 0

(* C5 - bounded attempts.  placeRooms never makes more than the attempt    *)
(* cap of loop iterations, whatever roomCount is, and at the cap the loop  *)
(* cannot run again and placeRooms returns.                                *)
C5_BoundedAttempts ==
    /\ attempts <= ATTEMPT_CAP
    /\ (pc = "place" /\ attempts >= ATTEMPT_CAP) =>
          (~ ENABLED PlaceAttempt /\ ENABLED PlaceReturn)

\* A roomCount no grid can hold: the cap is exhausted and the pass has returned.
C5_Witness ==
    /\ roomCount = HugeRoomCount
    /\ attempts = ATTEMPT_CAP
    /\ Len(rooms) < roomCount
    /\ Returned

(* C6 (as stated) - carving the same corridor twice gives the grid that    *)
(* carving it once gives, for every grid and every pair of endpoints.      *)
C6_TwiceSameAsOnce ==
    Len(orders) = 2 => grid = gridOnce

(* C6 (amended) - carving the same corridor twice gives the grid that      *)
(* carving it once gives when both calls draw the same run order.          *)
C6_TwiceSameOrder ==
    (Len(orders) = 2 /\ orders[1] = orders[2]) => grid = gridOnce

\* Two calls with the same order on endpoints inside the grid that share neither row nor column.
C6_Witness ==
    /\ Len(orders) = 2 /\ orders[1] = orders[2]
    /\ ends[1] # ends[3] /\ ends[2] # ends[4]
    /\ inBounds(ends[1], ends[2]) /\ inBounds(ends[3], ends[4])
    /\ IsFloor(grid, <<ends[1], ends[2]>>)

(* C8 (as stated) - on a grid too narrow for the smallest room, once       *)
(* placeRooms is over it has used up the attempt cap, the room list is     *)
(* empty, nothing was thrown, and no cell outside the grid was written.    *)
C8_SmallGridEmpty ==
    (roomCount >= 1 /\ pc # "place") =>
        /\ rooms = <<>>
        /\ attempts = ATTEMPT_CAP
        /\ pc # "threw"
        /\ ShapeKept

(* C9 - generateDungeon(0).  No placement attempt is ever made, and on     *)
(* return the room list is empty, no corridor was carved and every cell    *)
(* of the grid is WALL.                                                    *)
C9_ZeroRooms ==
    roomCount = 0 =>
        /\ attempts = 0
        /\ pc \in {"place", "done"}
        /\ Returned => (rooms = <<>> /\ corridors = <<>> /\ ShapeKept /\ AllWall)

C9_Witness ==
    roomCount = 0 /\ Returned

(* C10 - generateDungeon(1).  On return there is exactly one room, no      *)
(* corridor was carved, and a cell is FLOOR exactly when it lies in that   *)
(* room's footprint.                                                       *)
C10_OneRoom ==
    (roomCount = 1 /\ Returned) =>
        /\ Len(rooms) = 1
        /\ corridors = <<>>
        /\ ShapeKept
        /\ \A y \in DOMAIN grid : \A x \in DOMAIN grid[y] :
              (grid[y][x] = FLOOR) <=> (<<x, y>> \in Footprint(rooms[1]))

C10_Witness ==
    roomCount = 1 /\ Returned /\ Len(rooms) = 1 /\ ~ AllWall

\* max(roomCount, 0)
MaxZero(n) == IF n < 0 THEN 0 ELSE n

\* Sequence s is an initial segment of sequence t.
IsPrefix(s, t) ==
    Len(s) <= Len(t) /\ \A i \in 1 .. Len(s) : s[i] = t[i]

(* C11 - placement stops at roomCount rooms or at the attempt cap.  The    *)
(* room list never has more than max(roomCount, 0) rooms; once placeRooms  *)
(* is over with fewer than roomCount rooms, exactly the cap of attempts    *)
(* was made and it returned normally; and every step keeps the rooms       *)
(* accepted so far, in order, adding at most one at the end.               *)
C11_StopsAtCountOrCap ==
    /\ [](/\ Len(rooms) <= MaxZero(roomCount)
          /\ (pc # "place" /\ Len(rooms) < roomCount) =>
                (attempts = ATTEMPT_CAP /\ pc # "threw")
          /\ (pc # "place" /\ Len(rooms) >= roomCount) =>
                attempts <= ATTEMPT_CAP)
    /\ [][/\ IsPrefix(rooms, rooms')
          /\ Len(rooms') <= Len(rooms) + 1
          /\ attempts' # attempts =>
                (Len(rooms) < roomCount /\ attempts < ATTEMPT_CAP)
          /\ (pc = "place" /\ pc' \in {"connect", "done"}) =>
                ~ (Len(rooms) < roomCount /\ attempts < ATTEMPT_CAP)]_vars

\* A pass that ran out of attempts after a rejection: fewer rooms than asked, but some.
C11_Witness ==
    /\ Returned
    /\ roomCount <= MaxRoomCount
    /\ 1 <= Len(rooms) /\ Len(rooms) < roomCount
    /\ attempts = ATTEMPT_CAP

(* C12 - tile domain and shape.  In every state of a pass the grid has     *)
(* exactly HEIGHT rows of exactly WIDTH cells and every cell holds WALL    *)
(* or FLOOR.                                                               *)
C12_TileDomain ==
    /\ ShapeKept
    /\ \A y \in DOMAIN grid : \A x \in DOMAIN grid[y] : grid[y][x] \in Tiles

\* A returned grid that both rooms and a corridor have written.
C12_Witness ==
    Returned /\ Len(rooms) >= 2 /\ Len(corridors) >= 1

\* The cells of the L that starts with the horizontal run (firstHorizontal) or
\* with the vertical run, as <<x, y>> pairs, before any clipping.
RunCells(x1, y1, x2, y2, firstHorizontal) ==
    LET xlo == IF x1 <= x2 THEN x1 ELSE x2
        xhi == IF x1 <= x2 THEN x2 ELSE x1
        ylo == IF y1 <= y2 THEN y1 ELSE y2
        yhi == IF y1 <= y2 THEN y2 ELSE y1
    IN  IF firstHorizontal
          THEN {<<x, y1>> : x \in xlo .. xhi} \cup {<<x2, y>> : y \in ylo .. yhi}
          ELSE {<<x1, y>> : y \in ylo .. yhi} \cup {<<x, y2>> : x \in xlo .. xhi}

\* Grid h is grid g with the cells of L set to FLOOR and nothing else changed,
\* no row or cell added.
PaintedWith(g, h, L) ==
    /\ DOMAIN h = DOMAIN g
    /\ \A y \in DOMAIN g :
          /\ DOMAIN h[y] = DOMAIN g[y]
          /\ \A x \in DOMAIN g[y] :
                h[y][x] = IF <<x, y>> \in L THEN FLOOR ELSE g[y][x]

\* The set L of in-grid cells is one orthogonally connected path through c.
OnePath(L, c) ==
    ReachableFrom([y \in 0 .. HEIGHT - 1 |-> [x \in 0 .. WIDTH - 1 |->
                      IF <<x, y>> \in L THEN FLOOR ELSE WALL]], c) = L

EndsInBounds ==
    inBounds(ends[1], ends[2]) /\ inBounds(ends[3], ends[4])

(* C13 - the L of a corridor.  A carveCorridor call with both endpoints in *)
(* bounds sets to FLOOR exactly the cells of one of the two Ls between the *)
(* endpoints (row y1 then column x2, or column x1 then row y2), leaves     *)
(* every other cell as it was, and the L is one orthogonally connected     *)
(* path containing both endpoints.                                         *)
C13_CarvesOneL ==
    [][(orders' # orders /\ EndsInBounds) =>
          \E firstHorizontal \in BOOLEAN :
             LET L == RunCells(ends[1], ends[2], ends[3], ends[4], firstHorizontal)
             IN  /\ PaintedWith(grid, grid', L)
                 /\ <<ends[1], ends[2]>> \in L /\ <<ends[3], ends[4]>> \in L
                 /\ IsFloor(grid', <<ends[1], ends[2]>>)
                 /\ IsFloor(grid', <<ends[3], ends[4]>>)
                 /\ OnePath(L, <<ends[1], ends[2]>>)]_vars

\* One call made between in-bounds endpoints that share neither row nor column.
C13_Witness ==
    /\ Len(orders) = 1
    /\ EndsInBounds
    /\ ends[1] # ends[3] /\ ends[2] # ends[4]
    /\ IsFloor(grid, <<ends[1], ends[2]>>) /\ IsFloor(grid, <<ends[3], ends[4]>>)

(* C15 - clipping.  A carveCorridor call with an endpoint outside the grid *)
(* raises nothing, adds no row and no cell to the grid, sets to FLOOR      *)
(* exactly the in-grid cells of one of the two Ls, and changes no other    *)
(* cell.                                                                   *)
C15_Clips ==
    [][(orders' # orders /\ ~ EndsInBounds) =>
          /\ pc' = "carve"
          /\ \E firstHorizontal \in BOOLEAN :
                PaintedWith(grid, grid',
                            RunCells(ends[1], ends[2], ends[3], ends[4], firstHorizontal))]_vars

\* One call made from a point left of the grid to a point inside it: the row
\* was carved from the left edge.
C15_Witness ==
    /\ Len(orders) = 1
    /\ pc = "carve"
    /\ ends[1] = -1 /\ ends[2] \in 0 .. HEIGHT - 1
    /\ inBounds(ends[3], ends[4]) /\ ends[3] >= 1 /\ ends[2] # ends[4]
    /\ IsFloor(grid, <<ends[3], ends[4]>>)
    /\ IsFloor(grid, <<0, ends[2]>>) \/ IsFloor(grid, <<0, ends[4]>>)

\* The connected set, in insertion order, before the k-th carveCorridor call.
ConnectedBefore(k) ==
    [i \in 1 .. k |-> IF i = 1 THEN 0 ELSE corridors[i - 1][2]]

\* |dx| + |dy| between the centres of rooms a and b (0-based).
Manhattan(a, b) ==
    LET dx == centers[a + 1].x - centers[b + 1].x
        dy == centers[a + 1].y - centers[b + 1].y
    IN  (IF dx < 0 THEN 0 - dx ELSE dx) + (IF dy < 0 THEN 0 - dy ELSE dy)

\* The pairs <<position of a in the connected set, b>> the k-th iteration scans.
ScannedPairs(k) ==
    LET conn == ConnectedBefore(k)
        in == {conn[i] : i \in 1 .. k}
    IN  {<<i, b>> : i \in 1 .. k, b \in (0 .. Len(centers) - 1) \ in}

ConnectedSet == {connected[i] : i \in 1 .. Len(connected)}

(* C16 - the connection loop and the pass terminate.  The connected set    *)
(* starts as {0} and holds distinct room indices; every iteration adds     *)
(* exactly one index and removes none; the loop is left only when the set  *)
(* holds every index (never through the no-pair exit); and every pass      *)
(* eventually returns.                                                     *)
C16_Terminates ==
    /\ []((pc \in {"connect", "done"} /\ Len(rooms) >= 1) =>
             /\ connected[1] = 0
             /\ Cardinality(ConnectedSet) = Len(connected)
             /\ ConnectedSet \subseteq 0 .. Len(rooms) - 1
             /\ Returned => ConnectedSet = 0 .. Len(rooms) - 1)
    /\ [][/\ (pc = "place" /\ pc' = "connect") => connected' = <<0>>
          /\ pc = "connect" =>
             \/ /\ pc' = "connect"
                /\ IsPrefix(connected, connected')
                /\ Len(connected') = Len(connected) + 1
             \/ /\ pc' = "done"
                /\ connected' = connected
                /\ Len(connected) = Len(centers)]_vars
    /\ <>Returned

\* A returned pass whose connected set grew from {0} to three rooms.
C16_Witness ==
    Returned /\ Len(rooms) = 3 /\ Len(connected) = 3 /\ connected[1] = 0

(* C17 - with roomCount >= 1 the first candidate of placeRooms is accepted *)
(* (the room list is empty, so no overlap test rejects it, and carving it  *)
(* does not throw); the pass returns at least 1 and at most roomCount      *)
(* rooms.                                                                  *)
C17_FirstAccepted ==
    roomCount >= 1 =>
        /\ pc # "threw"
        /\ attempts >= 1 => Len(rooms) >= 1
        /\ attempts = 1 => Len(rooms) = 1
        /\ Returned => (1 <= Len(rooms) /\ Len(rooms) <= roomCount)

\* A returned pass that asked for three rooms and kept only its first candidate.
C17_Witness ==
    Returned /\ roomCount = 3 /\ attempts = ATTEMPT_CAP /\ Len(rooms) = 1

\* The cells of the bounding box of the centres of rooms a and b (0-based).
CentreBox(a, b) ==
    LET ca == centers[a + 1]
        cb == centers[b + 1]
    IN  {<<x, y>> : x \in (IF ca.x <= cb.x THEN ca.x .. cb.x ELSE cb.x .. ca.x),
                    y \in (IF ca.y <= cb.y THEN ca.y .. cb.y ELSE cb.y .. ca.y)}

\* The cells away from the outer border: 2 <= x <= WIDTH-4, 2 <= y <= HEIGHT-4.
Interior(c) ==
    2 <= c[1] /\ c[1] <= WIDTH - 4 /\ 2 <= c[2] /\ c[2] <= HEIGHT - 4

(* C18 - on the reference layout the bounds check of the corridor runs     *)
(* never rejects a cell.  Every room centre lies in its own room's         *)
(* footprint; the bounding box of the two centres of every corridor lies   *)
(* in bounds (inside the interior, in fact); every FLOOR cell lies in a    *)
(* room footprint or in such a box; hence every FLOOR cell has             *)
(* 2 <= x <= WIDTH-4 and 2 <= y <= HEIGHT-4, every border cell is WALL,    *)
(* and the grid keeps its shape.                                           *)
C18_CheckNeverRejects ==
    LET floor == {c \in UNION {{<<x, y>> : x \in DOMAIN grid[y]} : y \in DOMAIN grid} :
                     grid[c[2]][c[1]] = FLOOR}
        boxes == UNION {CentreBox(corridors[k][1], corridors[k][2]) :
                           k \in 1 .. Len(corridors)}
        feet  == UNION {Footprint(rooms[i]) : i \in 1 .. Len(rooms)}
    IN  /\ ShapeKept
        /\ \A c \in floor : Interior(c)
        /\ floor \subseteq feet \cup boxes
        /\ \A y \in DOMAIN grid : \A x \in DOMAIN grid[y] :
              ~ Interior(<<x, y>>) => grid[y][x] = WALL
        /\ pc \in {"connect", "done"} =>
              /\ \A i \in 1 .. Len(centers) :
                    <<centers[i].x, centers[i].y>> \in Footprint(rooms[i])
              /\ \A c \in boxes : inBounds(c[1], c[2]) /\ Interior(c)

\* A returned pass with a corridor whose two centres differ in both coordinates
\* and a FLOOR cell on the last interior column.
C18_Witness ==
    /\ Returned
    /\ \E k \in 1 .. Len(corridors) :
          /\ centers[corridors[k][1] + 1].x # centers[corridors[k][2] + 1].x
          /\ centers[corridors[k][1] + 1].y # centers[corridors[k][2] + 1].y
    /\ \E y \in DOMAIN grid : grid[y][WIDTH - 4] = FLOOR

\* The <<x, y>> cells of the grid that hold FLOOR.
FloorCells ==
    {c \in UNION {{<<x, y>> : x \in DOMAIN grid[y]} : y \in DOMAIN grid} :
        grid[c[2]][c[1]] = FLOOR}

\* The L between the centres of the rooms of corridor k, horizontal run first or
\* vertical run first.
CorridorL(k, firstHorizontal) ==
    LET a == centers[corridors[k][1] + 1]
        b == centers[corridors[k][2] + 1]
    IN  RunCells(a.x, a.y, b.x, b.y, firstHorizontal)

(* C19 - one floor region.  In the grid returned with at least one room,   *)
(* the FLOOR cells reachable from the centre of rooms[0] are all the FLOOR *)
(* cells; every FLOOR cell lies in a room footprint or on a carved         *)
(* corridor L; and every corridor has a fully carved L that contains the   *)
(* centres of the two rooms it joins.                                      *)
C19_OneRegion ==
    (Returned /\ Len(rooms) >= 1) =>
        LET floor == FloorCells
            feet  == UNION {Footprint(rooms[i]) : i \in 1 .. Len(rooms)}
            carved == {L \in {CorridorL(k, fh) : k \in 1 .. Len(corridors),
                                                 fh \in BOOLEAN} : L \subseteq floor}
        IN  /\ ReachableFrom(grid, <<centers[1].x, centers[1].y>>) = floor
            /\ floor \subseteq feet \cup UNION carved
            /\ \A k \in 1 .. Len(corridors) :
                  LET a == centers[corridors[k][1] + 1]
                      b == centers[corridors[k][2] + 1]
                  IN  \E fh \in BOOLEAN :
                         /\ CorridorL(k, fh) \in carved
                         /\ <<a.x, a.y>> \in CorridorL(k, fh)
                         /\ <<b.x, b.y>> \in CorridorL(k, fh)

\* A returned grid with three rooms and a FLOOR cell outside every footprint.
C19_Witness ==
    /\ Returned
    /\ Len(rooms) = 3
    /\ \E c \in FloorCells : \A i \in 1 .. Len(rooms) : c \notin Footprint(rooms[i])

(* C20 - monotone carving.  No step of a pass turns a FLOOR cell into      *)
(* anything else or removes a cell; no step changes or removes an accepted *)
(* room (the room list only grows at its end); and in the returned grid    *)
(* every cell of every returned room's footprint is FLOOR.                 *)
C20_FloorStays ==
    /\ [][/\ \/ grid' = grid
             \/ \A y \in DOMAIN grid : \A x \in DOMAIN grid[y] :
                   grid[y][x] = FLOOR => IsFloor(grid', <<x, y>>)
          /\ IsPrefix(rooms, rooms')]_vars
    /\ [](Returned =>
             \A i \in 1 .. Len(rooms) : Footprint(rooms[i]) \subseteq FloorCells)

\* A returned pass of two rooms whose corridor ran over cells the rooms had
\* already carved and over cells that were still WALL.
C20_Witness ==
    /\ Returned
    /\ Len(rooms) = 2
    /\ Len(corridors) = 1
    /\ \E fh \in BOOLEAN :
          /\ CorridorL(1, fh) \subseteq FloorCells
          /\ Cardinality(CorridorL(1, fh) \cap Footprint(rooms[1])) >= 2
          /\ CorridorL(1, fh) \ (Footprint(rooms[1]) \cup Footprint(rooms[2])) # {}

====
